---------------------------- MODULE Spec2Model ----------------------------
(***************************************************************************)
(* Shipping A/B-test delivery customization (cgk-platform/cgk).            *)
(*                                                                         *)
(* Two Shopify Functions hide delivery options whose title carries a       *)
(* variant tag different from the variant assigned to the cart:            *)
(*   - delivery-customization (apps/shopify-app/.../src/lib.rs)            *)
(*   - shipping-ab-test       (shopify-app/.../src/run.rs)                 *)
(*                                                                         *)
(* A Rust &str is modelled as the sequence of its UTF-8 bytes, because     *)
(* both extractors index, search and slice by byte offset.  A panic (index *)
(* out of bounds, usize underflow, slice off a character boundary) is a    *)
(* value of its own, Panicked, so that totality is something to check.     *)
(***************************************************************************)
EXTENDS Integers, Sequences, FiniteSets

VARIABLES
    cart,            \* input.cart of the invocation (the immutable snapshot)
    ran,             \* which function the host invoked last
    result,          \* what that invocation returned
    invocations,     \* how many invocations the host has made on this cart
    title,           \* the &str handed to the extractors
    variant_suffix,  \* what extract_variant_suffix(title) returned
    rate_suffix      \* what extract_suffix(title) returned

vars == <<cart, ran, result, invocations, title, variant_suffix, rate_suffix>>

---------------------------------------------------------------------------
(* Bounds of the model.                                                    *)

\* characters of a generated title
MaxTitleLen == 6
\* delivery options of a cart, over all its delivery groups
MaxOptions == 2
\* line items of a cart
MaxLines == 2
\* invocations the host makes on one cart snapshot
MaxInvocations == 2

---------------------------------------------------------------------------
(* Bytes the code names.                                                   *)

SPACE == 32
LPAREN == 40
RPAREN == 41

\* u8::is_ascii_alphanumeric: '0'..='9' | 'A'..='Z' | 'a'..='z'
is_ascii_alphanumeric(b) ==
    \/ b \in 48..57
    \/ b \in 65..90
    \/ b \in 97..122

\* The closed set of matches!(suffix, "A" | "B" | "C" | "D")
VALID_SUFFIXES == {<<65>>, <<66>>, <<67>>, <<68>>}

---------------------------------------------------------------------------
(* Rust values.                                                            *)

\* Option<T>: None, Some(x)
None == <<>>
Some(x) == <<x>>
unwrap(o) == o[1]

\* What a call returns: a value, or a panic.
Panicked == [tag |-> "Panic", val |-> <<>>]
Returned(o) == [tag |-> "Ok", val |-> o]
NotRun == [tag |-> "NotRun", val |-> <<>>]

\* str::len, bytes[i], with Rust's 0-based byte offsets
len(s) == Len(s)
InBounds(s, i) == i >= 0 /\ i < Len(s)
byte(s, i) == s[i + 1]

\* str::is_char_boundary: offset 0, offset len, or a byte that is not a
\* UTF-8 continuation byte (10xxxxxx)
is_char_boundary(s, i) ==
    \/ i = 0
    \/ i = Len(s)
    \/ /\ InBounds(s, i)
       /\ ~(byte(s, i) \in 128..191)

\* &s[a..b] panics unless a <= b <= len and both are character boundaries
SliceOk(s, a, b) ==
    /\ a >= 0
    /\ a <= b
    /\ b <= Len(s)
    /\ is_char_boundary(s, a)
    /\ is_char_boundary(s, b)

Slice(s, a, b) == SubSeq(s, a + 1, b)

\* str::rfind of a one-byte (ASCII) character: the byte offset of its last
\* occurrence, as Option<usize>.  An ASCII byte never occurs inside a
\* multi-byte character, so the search by character is a search by byte.
rfind(s, ch) ==
    LET at == {i \in 0..(Len(s) - 1) : byte(s, i) = ch}
    IN  IF at = {} THEN None
        ELSE Some(CHOOSE i \in at : \A j \in at : j <= i)

\* str::find, the first occurrence
find(s, ch) ==
    LET at == {i \in 0..(Len(s) - 1) : byte(s, i) = ch}
    IN  IF at = {} THEN None
        ELSE Some(CHOOSE i \in at : \A j \in at : i <= j)

---------------------------------------------------------------------------
(* delivery-customization: extract_variant_suffix                          *)

\* The pattern test and the slice of lib.rs:108-120, evaluated left to
\* right with && short-circuiting; each bytes[i] is bounds-checked.
variant_suffix_pattern(s) ==
    LET n == len(s)
    IN  IF ~InBounds(s, n - 1) THEN Panicked
        ELSE IF byte(s, n - 1) # RPAREN THEN Returned(None)
        ELSE IF ~InBounds(s, n - 3) THEN Panicked
        ELSE IF byte(s, n - 3) # LPAREN THEN Returned(None)
        ELSE IF ~InBounds(s, n - 4) THEN Panicked
        ELSE IF byte(s, n - 4) # SPACE THEN Returned(None)
        ELSE IF ~InBounds(s, n - 2) THEN Panicked
        ELSE IF ~is_ascii_alphanumeric(byte(s, n - 2)) THEN Returned(None)
        ELSE IF ~SliceOk(s, n - 2, n - 1) THEN Panicked
        ELSE Returned(Some(Slice(s, n - 2, n - 1)))

\* Mutant: the byte before '(' is not tested.
extract_variant_suffix_no_space(s) ==
    LET n == len(s)
    IN  IF n < 4 THEN Returned(None)
        ELSE IF byte(s, n - 1) = RPAREN /\ byte(s, n - 3) = LPAREN
                /\ is_ascii_alphanumeric(byte(s, n - 2))
             THEN Returned(Some(Slice(s, n - 2, n - 1)))
             ELSE Returned(None)

\* Mutant: the minimum-length guard of lib.rs:104 is missing.
extract_variant_suffix_unguarded(s) == variant_suffix_pattern(s)

extract_variant_suffix(s) ==
    IF len(s) < 4 THEN Returned(None)
    ELSE variant_suffix_pattern(s)

---------------------------------------------------------------------------
(* shipping-ab-test: extract_suffix                                        *)

\* run.rs:76-85 once start and end are known
suffix_between(s, start, end) ==
    IF ~(start < end) THEN Returned(<<>>)
    ELSE IF len(s) < 1 THEN Panicked          \* title.len() - 1 underflows
    ELSE IF end # len(s) - 1 THEN Returned(<<>>)
    ELSE IF ~SliceOk(s, start + 1, end) THEN Panicked
    ELSE LET suffix == Slice(s, start + 1, end)
         IN  IF len(suffix) = 1 /\ suffix \in VALID_SUFFIXES
             THEN Returned(suffix)
             ELSE Returned(<<>>)

\* Mutant: the first '(' is taken instead of the last one.
extract_suffix_first_paren(s) ==
    LET start == find(s, LPAREN)
        end == rfind(s, RPAREN)
    IN  IF start = None THEN Returned(<<>>)
        ELSE IF end = None THEN Returned(<<>>)
        ELSE suffix_between(s, unwrap(start), unwrap(end))

\* Mutant: any single ASCII letter or digit is accepted as a suffix, the
\* rule of delivery-customization.
extract_suffix_any_alnum(s) ==
    LET start == rfind(s, LPAREN)
        end == rfind(s, RPAREN)
    IN  IF start = None THEN Returned(<<>>)
        ELSE IF end = None THEN Returned(<<>>)
        ELSE IF ~(unwrap(start) < unwrap(end)) THEN Returned(<<>>)
        ELSE IF unwrap(end) # len(s) - 1 THEN Returned(<<>>)
        ELSE LET suffix == Slice(s, unwrap(start) + 1, unwrap(end))
             IN  IF len(suffix) = 1 /\ is_ascii_alphanumeric(suffix[1])
                 THEN Returned(suffix)
                 ELSE Returned(<<>>)

extract_suffix(s) ==
    LET start == rfind(s, LPAREN)
        end == rfind(s, RPAREN)
    IN  IF start = None THEN Returned(<<>>)
        ELSE IF end = None THEN Returned(<<>>)
        ELSE suffix_between(s, unwrap(start), unwrap(end))

---------------------------------------------------------------------------
(* Titles.                                                                 *)

\* The characters generated titles are made of, each as its UTF-8 bytes:
\* ' '  '('  ')'  'A'  '1'  '-'  and the two-byte U+00E9
Chars == {<<32>>, <<40>>, <<41>>, <<65>>, <<49>>, <<45>>, <<195, 169>>}

\* The bytes of a sequence of characters
RECURSIVE Concat(_)
Concat(cs) ==
    IF cs = <<>> THEN <<>>
    ELSE Head(cs) \o Concat(Tail(cs))

\* The titles of the two test suites and of the doc comments.
\* "Standard Shipping (A)"
T_StandardShippingA ==
    <<83, 116, 97, 110, 100, 97, 114, 100, 32, 83, 104, 105, 112, 112, 105, 110, 103, 32, 40, 65, 41>>
\* "Standard Shipping (B)"
T_StandardShippingB ==
    <<83, 116, 97, 110, 100, 97, 114, 100, 32, 83, 104, 105, 112, 112, 105, 110, 103, 32, 40, 66, 41>>
\* "Express (B)"
T_ExpressB ==
    <<69, 120, 112, 114, 101, 115, 115, 32, 40, 66, 41>>
\* "Test (1)"
T_Test1 ==
    <<84, 101, 115, 116, 32, 40, 49, 41>>
\* "Standard Shipping"
T_StandardShipping ==
    <<83, 116, 97, 110, 100, 97, 114, 100, 32, 83, 104, 105, 112, 112, 105, 110, 103>>
\* "Free Shipping"
T_FreeShipping ==
    <<70, 114, 101, 101, 32, 83, 104, 105, 112, 112, 105, 110, 103>>
\* "Standard (AB)"
T_StandardAB ==
    <<83, 116, 97, 110, 100, 97, 114, 100, 32, 40, 65, 66, 41>>
\* "(A)"
T_BareA ==
    <<40, 65, 41>>
\* "Express Shipping"
T_ExpressShipping ==
    <<69, 120, 112, 114, 101, 115, 115, 32, 83, 104, 105, 112, 112, 105, 110, 103>>
\* "Standard Shipping (Control)"
T_StandardShippingControl ==
    <<83, 116, 97, 110, 100, 97, 114, 100, 32, 83, 104, 105, 112, 112, 105, 110, 103, 32, 40, 67, 111, 110, 116, 114, 111, 108, 41>>
\* "Free Shipping (B)"
T_FreeShippingB ==
    <<70, 114, 101, 101, 32, 83, 104, 105, 112, 112, 105, 110, 103, 32, 40, 66, 41>>
\* "Express (C)"
T_ExpressC ==
    <<69, 120, 112, 114, 101, 115, 115, 32, 40, 67, 41>>
\* "Overnight (D)"
T_OvernightD ==
    <<79, 118, 101, 114, 110, 105, 103, 104, 116, 32, 40, 68, 41>>
\* "Free Shipping ()"
T_FreeShippingEmpty ==
    <<70, 114, 101, 101, 32, 83, 104, 105, 112, 112, 105, 110, 103, 32, 40, 41>>
\* "Express (AB)"
T_ExpressAB ==
    <<69, 120, 112, 114, 101, 115, 115, 32, 40, 65, 66, 41>>
\* "Overnight (E)"
T_OvernightE ==
    <<79, 118, 101, 114, 110, 105, 103, 104, 116, 32, 40, 69, 41>>
\* "Multiple (X) parts (A)"
T_MultipleXPartsA ==
    <<77, 117, 108, 116, 105, 112, 108, 101, 32, 40, 88, 41, 32, 112, 97, 114, 116, 115, 32, 40, 65, 41>>
TestTitles ==
    {T_StandardShippingA,
     T_StandardShippingB,
     T_ExpressB,
     T_Test1,
     T_StandardShipping,
     T_FreeShipping,
     T_StandardAB,
     T_BareA,
     T_ExpressShipping,
     T_StandardShippingControl,
     T_FreeShippingB,
     T_ExpressC,
     T_OvernightD,
     T_FreeShippingEmpty,
     T_ExpressAB,
     T_OvernightE,
     T_MultipleXPartsA}

---------------------------------------------------------------------------
(* The cart snapshot.                                                      *)

\* Option<Attribute { value: Option<String> }>: absent, present without a
\* value, present with "", "A", "B" or "1"
AttributeValues == {None, Some(<<>>), Some(<<65>>), Some(<<66>>), Some(<<49>>)}
Attributes == {None} \cup {Some([value |-> v]) : v \in AttributeValues}

\* A line item; selling_plan_allocation is Some for a subscription line.
Lines ==
    {[selling_plan_allocation |-> None],
     [selling_plan_allocation |-> Some("plan")]}
LineSeqs == UNION {[1..n -> Lines] : n \in 0..MaxLines}

\* Titles of the options of a cart: tagged A, tagged B, a tag only
\* shipping-ab-test reads, a tag only delivery-customization reads, no tag.
OptionTitles ==
    {T_StandardShippingA, T_StandardShippingB, T_BareA, T_Test1, T_ExpressShipping}

\* The k-th smallest element of a set of numbers
Nth(S, k) == CHOOSE x \in S : Cardinality({y \in S : y < x}) = k - 1

\* The options titled titles[1..n], in this order, split into delivery
\* groups after the positions in cuts.  The i-th option in traversal order
\* carries the handle i: handles are opaque and distinct.
GroupsOf(titles, cuts) ==
    LET n == Len(titles)
        starts == {1} \cup {c + 1 : c \in cuts}
        first(g) == Nth(starts, g)
        last(g) == IF g = Cardinality(starts) THEN n ELSE Nth(starts, g + 1) - 1
    IN  IF n = 0 THEN <<>>
        ELSE [g \in 1..Cardinality(starts) |->
                [delivery_options |->
                    [i \in 1..(last(g) - first(g) + 1) |->
                        [title |-> titles[first(g) + i - 1],
                         handle |-> first(g) + i - 1]]]]

DeliveryGroupSeqs ==
    UNION {{GroupsOf(ts, cuts) : ts \in [1..n -> OptionTitles],
                                 cuts \in SUBSET (1..(n - 1))}
           : n \in 0..MaxOptions}

Carts ==
    [attribute : Attributes, lines : LineSeqs, delivery_groups : DeliveryGroupSeqs]

EmptyCart == [attribute |-> None, lines |-> <<>>, delivery_groups |-> <<>>]

---------------------------------------------------------------------------
(* Output operations.                                                      *)

\* output::DeprecatedOperation::Hide(HideOperation { delivery_option_handle })
DeprecatedHide(handle) == [hide |-> handle]

\* output::Operation { hide: Some(HideOperation { .. }), move_: None, rename: None }
HideOnly(handle) == [hide |-> handle, move_ |-> None, rename |-> None]

\* Mutant: the operation is put in front of the list.
push_front(operations, op) == <<op>> \o operations

\* Vec::push
push(operations, op) == Append(operations, op)

---------------------------------------------------------------------------
(* delivery-customization: should_hide_option and run                      *)

\* Mutant: an option is hidden when its suffix matches the variant.
should_hide_option_inverted(t, variant) ==
    LET suffix == extract_variant_suffix(t)
    IN  IF suffix.tag = "Panic" THEN Panicked
        ELSE IF suffix.val # None THEN Returned(unwrap(suffix.val) = variant)
        ELSE Returned(FALSE)

should_hide_option(t, variant) ==
    LET suffix == extract_variant_suffix(t)
    IN  IF suffix.tag = "Panic" THEN Panicked
        ELSE IF suffix.val # None THEN Returned(unwrap(suffix.val) # variant)
        ELSE Returned(FALSE)

\* Mutant: all() instead of any().
has_subscription_all(c) ==
    \A i \in DOMAIN c.lines : c.lines[i].selling_plan_allocation # None

\* cart.lines.iter().any(|line| line.selling_plan_allocation.is_some())
has_subscription(c) ==
    \E i \in DOMAIN c.lines : c.lines[i].selling_plan_allocation # None

\* for option in &group.delivery_options { .. }, from the operations so far
RECURSIVE hide_in_group(_, _, _)
hide_in_group(options, variant, operations) ==
    IF options = <<>> THEN Returned(operations)
    ELSE LET option == Head(options)
             should_hide == should_hide_option(option.title, variant)
         IN  IF should_hide.tag = "Panic" THEN Panicked
             ELSE IF should_hide.val
                  THEN hide_in_group(Tail(options), variant,
                                     push(operations, DeprecatedHide(option.handle)))
                  ELSE hide_in_group(Tail(options), variant, operations)

\* for group in &cart.delivery_groups { .. }
RECURSIVE hide_in_groups(_, _, _)
hide_in_groups(groups, variant, operations) ==
    IF groups = <<>> THEN Returned(operations)
    ELSE LET done == hide_in_group(Head(groups).delivery_options, variant, operations)
         IN  IF done.tag = "Panic" THEN Panicked
             ELSE hide_in_groups(Tail(groups), variant, done.val)

\* cart.shipping_variant.as_ref().and_then(|a| a.value.as_ref())
attribute_value(c) ==
    IF c.attribute = None THEN None ELSE unwrap(c.attribute).value

run_delivery_customization(c) ==
    LET shipping_variant == attribute_value(c)
    IN  IF shipping_variant = None THEN Returned(<<>>)
        ELSE IF has_subscription(c) THEN Returned(<<>>)
        ELSE hide_in_groups(c.delivery_groups, unwrap(shipping_variant), <<>>)

---------------------------------------------------------------------------
(* shipping-ab-test: run                                                   *)

RECURSIVE filter_group(_, _, _)
filter_group(options, variant, operations) ==
    IF options = <<>> THEN Returned(operations)
    ELSE LET option == Head(options)
             suffix == extract_suffix(option.title)
         IN  IF suffix.tag = "Panic" THEN Panicked
             ELSE IF suffix.val # <<>> /\ suffix.val # variant
                  THEN filter_group(Tail(options), variant,
                                    push(operations, HideOnly(option.handle)))
                  ELSE filter_group(Tail(options), variant, operations)

RECURSIVE filter_groups(_, _, _)
filter_groups(groups, variant, operations) ==
    IF groups = <<>> THEN Returned(operations)
    ELSE LET done == filter_group(Head(groups).delivery_options, variant, operations)
         IN  IF done.tag = "Panic" THEN Panicked
             ELSE filter_groups(Tail(groups), variant, done.val)

\* .map(|v| v.as_str()).unwrap_or("")
unwrap_or_empty(o) == IF o = None THEN <<>> ELSE unwrap(o)

\* Mutant: the subscription exemption of delivery-customization is applied.
run_shipping_ab_test_exempting(c) ==
    LET v == unwrap_or_empty(attribute_value(c))
    IN  IF v = <<>> THEN Returned(<<>>)
        ELSE IF has_subscription(c) THEN Returned(<<>>)
        ELSE filter_groups(c.delivery_groups, v, <<>>)

run_shipping_ab_test(c) ==
    LET v == unwrap_or_empty(attribute_value(c))
    IN  IF v = <<>> THEN Returned(<<>>)
        ELSE filter_groups(c.delivery_groups, v, <<>>)

---------------------------------------------------------------------------
(* The host invokes one of the two functions on a cart snapshot, possibly  *)
(* more than once (one invocation per checkout evaluation).                *)

Init ==
    /\ cart \in Carts
    /\ ran = "none"
    /\ result = NotRun
    /\ invocations = 0
    /\ title = <<>>
    /\ variant_suffix = NotRun
    /\ rate_suffix = NotRun

\* Mutant: the operations of the earlier invocations are kept (a list that
\* outlives the call instead of `let mut operations = Vec::new()`).
RunDeliveryCustomizationKeeping ==
    /\ ran \in {"none", "delivery-customization"}
    /\ invocations < MaxInvocations
    /\ ran' = "delivery-customization"
    /\ result' = LET r == run_delivery_customization(cart)
                 IN  IF r.tag = "Panic" THEN r ELSE Returned(result.val \o r.val)
    /\ invocations' = invocations + 1
    /\ UNCHANGED <<cart, title, variant_suffix, rate_suffix>>

RunDeliveryCustomization ==
    /\ ran \in {"none", "delivery-customization"}
    /\ invocations < MaxInvocations
    /\ ran' = "delivery-customization"
    /\ result' = run_delivery_customization(cart)
    /\ invocations' = invocations + 1
    /\ UNCHANGED <<cart, title, variant_suffix, rate_suffix>>

RunShippingAbTest ==
    /\ ran \in {"none", "shipping-ab-test"}
    /\ invocations < MaxInvocations
    /\ ran' = "shipping-ab-test"
    /\ result' = run_shipping_ab_test(cart)
    /\ invocations' = invocations + 1
    /\ UNCHANGED <<cart, title, variant_suffix, rate_suffix>>

Next ==
    \/ RunDeliveryCustomization
    \/ RunShippingAbTest

Spec == Init /\ [][Next]_vars

---------------------------------------------------------------------------
(* The extractors alone, each applied to a title.                          *)

\* A title is one of the test titles or any string of at most MaxTitleLen
\* characters.
InitExtract ==
    /\ \/ title \in TestTitles
       \/ \E n \in 0..MaxTitleLen : \E cs \in [1..n -> Chars] : title = Concat(cs)
    /\ variant_suffix = NotRun
    /\ rate_suffix = NotRun
    /\ cart = EmptyCart
    /\ ran = "none"
    /\ result = NotRun
    /\ invocations = 0

ExtractVariantSuffix ==
    /\ variant_suffix.tag = "NotRun"
    /\ variant_suffix' = extract_variant_suffix(title)
    /\ UNCHANGED <<cart, ran, result, invocations, title, rate_suffix>>

ExtractSuffix ==
    /\ rate_suffix.tag = "NotRun"
    /\ rate_suffix' = extract_suffix(title)
    /\ UNCHANGED <<cart, ran, result, invocations, title, variant_suffix>>

NextExtract ==
    \/ ExtractVariantSuffix
    \/ ExtractSuffix

SpecExtract == InitExtract /\ [][NextExtract]_vars

---------------------------------------------------------------------------
(* What the claims speak of.                                               *)

\* The ASCII letters and digits
AlnumBytes == (48..57) \cup (65..90) \cup (97..122)

\* The tokens of the closed set, as bytes and as one-byte strings
ClosedSetBytes == {65, 66, 67, 68}
ClosedSetTokens == {<<b>> : b \in ClosedSetBytes}

\* L >= 4, title[L-1] = ')', title[L-3] = '(', title[L-4] = ' ' and
\* title[L-2] alphanumeric, in 0-based byte positions
EndsWithSpacedTag(t) ==
    LET L == Len(t)
    IN  /\ L >= 4
        /\ t[L] = 41
        /\ t[L - 2] = 40
        /\ t[L - 3] = 32
        /\ t[L - 1] \in AlnumBytes

\* The last character is ')', the last '(' is two positions before it and
\* the character between them is one of A, B, C, D
EndsWithClosedTag(t) ==
    LET L == Len(t)
    IN  /\ L >= 3
        /\ t[L] = 41
        /\ t[L - 2] = 40
        /\ \A i \in (L - 1)..L : t[i] # 40
        /\ t[L - 1] \in ClosedSetBytes

EndsWithEmptyParens(t) ==
    /\ Len(t) >= 3
    /\ SubSeq(t, Len(t) - 2, Len(t)) = <<32, 40, 41>>

\* The options of a cart in traversal order: groups in order, the options
\* of each group in order
RECURSIVE OptionsInOrder(_)
OptionsInOrder(groups) ==
    IF groups = <<>> THEN <<>>
    ELSE Head(groups).delivery_options \o OptionsInOrder(Tail(groups))

HandlesOf(ops) == [i \in DOMAIN ops |-> ops[i].hide]
InputHandles(c) ==
    LET opts == OptionsInOrder(c.delivery_groups)
    IN  [i \in DOMAIN opts |-> opts[i].handle]

RECURSIVE IsSubsequence(_, _)
IsSubsequence(a, b) ==
    IF a = <<>> THEN TRUE
    ELSE IF b = <<>> THEN FALSE
    ELSE IF Head(a) = Head(b) THEN IsSubsequence(Tail(a), Tail(b))
    ELSE IsSubsequence(a, Tail(b))

\* The attribute is absent, has no value, or has the empty string as value
NoVariantAssigned(c) ==
    \/ c.attribute = None
    \/ c.attribute[1].value = None
    \/ c.attribute[1].value = Some(<<>>)

AssignedVariant(c) == c.attribute[1].value[1]

AnySubscriptionLine(c) ==
    \E i \in DOMAIN c.lines : c.lines[i].selling_plan_allocation # None

TitlesOf(c) ==
    LET opts == OptionsInOrder(c.delivery_groups)
    IN  [i \in DOMAIN opts |-> opts[i].title]

---------------------------------------------------------------------------
(* Claims about the extractors (SpecExtract).                              *)

\* C1: extract_variant_suffix returns a token if and only if the title has
\* length L >= 4, ends in ')', has '(' at L-3, ' ' at L-4 and an (ASCII)
\* alphanumeric at L-2, positions counted in bytes; the token is then the
\* one character at L-2.  The empty title, "(A)", "Standard (AB)" and a
\* title ending in " ()" yield no token; "Multiple (X) parts (A)" yields "A".
C1_VariantSuffixPattern ==
    variant_suffix.tag # "NotRun" =>
        /\ (variant_suffix.val # None) <=> EndsWithSpacedTag(title)
        /\ EndsWithSpacedTag(title) =>
               variant_suffix.val = Some(<<title[Len(title) - 1]>>)
        /\ title \in {<<>>, T_BareA, T_StandardAB} => variant_suffix.val = None
        /\ EndsWithEmptyParens(title) => variant_suffix.val = None
        /\ title = T_MultipleXPartsA => variant_suffix.val = Some(<<65>>)

C1_Witness ==
    /\ title = T_MultipleXPartsA
    /\ variant_suffix.tag = "Ok"
    /\ variant_suffix.val = Some(<<65>>)

\* C6: extract_suffix returns a one-character token if and only if the
\* title ends in ')', its last '(' is two positions before the end and the
\* character between them is one of A, B, C, D; it returns that character,
\* and otherwise the empty string.  "(A)" yields "A"; "Test (1)",
\* "Overnight (E)", "Express (AB)", "Free Shipping ()" and the empty title
\* yield ""; "Multiple (X) parts (A)" yields "A".
C6_SuffixPattern ==
    rate_suffix.tag # "NotRun" =>
        /\ EndsWithClosedTag(title) => rate_suffix.val = <<title[Len(title) - 1]>>
        /\ ~EndsWithClosedTag(title) => rate_suffix.val = <<>>
        /\ title \in {T_BareA, T_MultipleXPartsA} => rate_suffix.val = <<65>>
        /\ title \in {<<>>, T_Test1, T_OvernightE, T_ExpressAB, T_FreeShippingEmpty}
               => rate_suffix.val = <<>>

C6_Witness ==
    /\ title = T_BareA
    /\ rate_suffix.tag = "Ok"
    /\ rate_suffix.val = <<65>>

\* C7: both extractors return a value for every title: no byte index out
\* of bounds, no length underflow, no slice off a character boundary.
C7_ExtractorsTotal ==
    /\ variant_suffix.tag # "Panic"
    /\ rate_suffix.tag # "Panic"

\* Both extractors have returned on " (X)" with X = U+00E9, a title whose parenthetical
\* holds a two-byte character.
C7_Witness ==
    /\ variant_suffix.tag = "Ok"
    /\ rate_suffix.tag = "Ok"
    /\ title = <<32, 40, 195, 169, 41>>

\* C9: whenever extract_variant_suffix returns a token of the closed set
\* {A, B, C, D}, extract_suffix returns the same token; and whenever
\* extract_suffix returns a token while extract_variant_suffix returns
\* none, the '(' of the title is its first character or follows a
\* character that is not a space.
C9_ExtractorsAgree ==
    (variant_suffix.tag = "Ok" /\ rate_suffix.tag = "Ok") =>
        /\ (variant_suffix.val # None /\ variant_suffix.val[1] \in ClosedSetTokens)
               => rate_suffix.val = variant_suffix.val[1]
        /\ (rate_suffix.val # <<>> /\ variant_suffix.val = None)
               => (Len(title) = 3 \/ title[Len(title) - 3] # 32)

\* A title with an earlier '(' on which both extractors return "A".
C9_Witness ==
    /\ title = T_MultipleXPartsA
    /\ variant_suffix.val = Some(<<65>>)
    /\ rate_suffix.val = <<65>>

---------------------------------------------------------------------------
(* Claims about run (Spec).                                                *)

\* C2: in both implementations, if the assigned-variant attribute is
\* absent, has no value or has the empty string as value, run returns an
\* empty list of operations.
C2_NoVariantNoOperations ==
    (ran # "none" /\ NoVariantAssigned(cart)) =>
        (result.tag = "Ok" /\ result.val = <<>>)

\* C3: with a non-empty assigned variant and no exemption in force, run
\* hides an option if and only if the implementation's extractor returns a
\* token for its title and the token differs from the assigned variant.
C3_HiddenIffOtherVariant ==
    (ran # "none" /\ ~NoVariantAssigned(cart)) =>
        LET opts == OptionsInOrder(cart.delivery_groups)
            hidden == {result.val[i].hide : i \in DOMAIN result.val}
            v == AssignedVariant(cart)
        IN  /\ result.tag = "Ok"
            /\ (ran = "delivery-customization" /\ ~AnySubscriptionLine(cart)) =>
                   \A i \in DOMAIN opts :
                       LET token == extract_variant_suffix(opts[i].title).val
                       IN  (opts[i].handle \in hidden)
                               <=> (token # None /\ token[1] # v)
            /\ ran = "shipping-ab-test" =>
                   \A i \in DOMAIN opts :
                       LET token == extract_suffix(opts[i].title).val
                       IN  (opts[i].handle \in hidden)
                               <=> (token # <<>> /\ token # v)

\* Variant "B", options "Standard Shipping (A)" and "Standard Shipping (B)":
\* delivery-customization hides the first and keeps the second.
C3_Witness ==
    /\ ran = "delivery-customization"
    /\ ~NoVariantAssigned(cart)
    /\ AssignedVariant(cart) = <<66>>
    /\ ~AnySubscriptionLine(cart)
    /\ TitlesOf(cart) = <<T_StandardShippingA, T_StandardShippingB>>
    /\ HandlesOf(result.val) = <<1>>

\* C4: in delivery-customization, if at least one line item has a selling
\* plan allocation, run returns an empty list of operations, even when a
\* variant is assigned and some title carries another variant's token.
C4_SubscriptionExempt ==
    (ran = "delivery-customization" /\ AnySubscriptionLine(cart)) =>
        (result.tag = "Ok" /\ result.val = <<>>)

\* A cart with a plain line and a subscription line, variant "A" and an
\* option tagged "B", after delivery-customization ran.
C4_Witness ==
    /\ ran = "delivery-customization"
    /\ Len(cart.lines) = 2
    /\ cart.lines[1].selling_plan_allocation = None
    /\ cart.lines[2].selling_plan_allocation # None
    /\ ~NoVariantAssigned(cart)
    /\ AssignedVariant(cart) = <<65>>
    /\ \E i \in DOMAIN TitlesOf(cart) : TitlesOf(cart)[i] = T_StandardShippingB
    /\ result.val = <<>>

\* C5: the handles of the operations run returns are a subsequence of the
\* handles of the options in traversal order (groups in order, options of
\* each group in order).
C5_OperationsInInputOrder ==
    ran # "none" =>
        /\ result.tag = "Ok"
        /\ IsSubsequence(HandlesOf(result.val), InputHandles(cart))

\* Two options of two different groups, both hidden.
C5_Witness ==
    /\ ran # "none"
    /\ Len(cart.delivery_groups) = 2
    /\ HandlesOf(result.val) = <<1, 2>>

C10_LinesIrrelevant ==
    ran = "shipping-ab-test" =>
        \A ls \in LineSeqs :
            run_shipping_ab_test([cart EXCEPT !.lines = ls]) = result

\* A subscription cart whose options shipping-ab-test has filtered.
C10_Witness ==
    /\ ran = "shipping-ab-test"
    /\ AnySubscriptionLine(cart)
    /\ Len(result.val) >= 1

===========================================================================
